---------------------------- MODULE Spec2Model ----------------------------
(***************************************************************************)
(* A model of xpyt::debugger (src/src/xdebugger.cpp): the session          *)
(* lifecycle (start, start_debugpy, stop) and the four request handlers    *)
(* registered by the constructor.                                          *)
(*                                                                         *)
(* Strings the code inspects character by character (variable names, the   *)
(* port, type names) are sequences of one-character strings.  The          *)
(* collaborators the code calls (the zmq sockets, the control messenger,   *)
(* the interpreter, the external adapter behind forward_message) are       *)
(* modelled by their documented behaviour at the call site.                *)
(***************************************************************************)
EXTENDS Integers, Sequences, FiniteSets, TLC

VARIABLES
    m_debugpy_host,     \* debugger::m_debugpy_host
    m_debugpy_port,     \* debugger::m_debugpy_port, a sequence of characters
    m_debugger_config,  \* debugger::m_debugger_config
    debugpy_started,    \* the function-local static of start(): initialized or not, and its value
    shell_requests,     \* the 'run code' requests sent through the control messenger
    clog,               \* the lines written to std::clog
    request_bound,      \* the request socket is bound to the "debugger" endpoint
    header_bound,       \* the header socket is bound to the "debugger_header" endpoint
    workers,            \* the detached worker threads, each with the endpoint it was given
    req_chan,           \* handshake tokens sent on the request socket, not yet taken by a worker
    ack_chan,           \* acknowledgements sent by a worker, not yet received by start()
    start_pc,           \* "idle", or "recv" while start() is blocked in recv (line 319)
    calls,              \* the number of start() calls made
    op,                 \* the last start() or stop() call: its steps and outcome
    globals,            \* the interpreter's global scope (py::globals()), in insertion order
    stopped_threads,    \* xdebugger_base::get_stopped_threads()
    call,               \* the last handler invocation: its request, steps and outcome
    shell_replies,      \* the replies received to the 'run code' requests
    filter_probe        \* the last application of keep_variable: its argument and result

vars == <<m_debugpy_host, m_debugpy_port, m_debugger_config, debugpy_started,
          shell_requests, clog, request_bound, header_bound, workers, req_chan,
          ack_chan, start_pc, calls, op, globals, stopped_threads, call,
          shell_replies, filter_probe>>

session == <<m_debugpy_host, m_debugpy_port, m_debugger_config>>
sockets == <<request_bound, header_bound>>
bootstrap == <<debugpy_started, shell_requests, shell_replies, clog>>
transport == <<workers, req_chan, ack_chan>>
lifecycle == <<bootstrap, sockets, transport, start_pc, calls, op>>
interpreter == <<globals, stopped_threads>>

-----------------------------------------------------------------------------
(* Bounds of the model. *)

\* start() calls in one behaviour
MaxStarts == 3

\* threads of the debugged program
MaxThreads == 2

\* the length of the names keep_variable is applied to, beyond the listed ones
MaxNameLen == 3

-----------------------------------------------------------------------------
(* Character strings. *)

Min(a, b) == IF a < b THEN a ELSE b

Digits == {"0", "1", "2", "3", "4", "5", "6", "7", "8", "9"}

DigitValue(c) ==
    CASE c = "0" -> 0 [] c = "1" -> 1 [] c = "2" -> 2 [] c = "3" -> 3
      [] c = "4" -> 4 [] c = "5" -> 5 [] c = "6" -> 6 [] c = "7" -> 7
      [] c = "8" -> 8 [] c = "9" -> 9

\* std::string::substr(pos, n) for pos <= size
substr(s, pos, n) == SubSeq(s, pos + 1, Min(Len(s), pos + n))

\* the longest prefix of digits of s
RECURSIVE DigitPrefix(_)
DigitPrefix(s) ==
    IF s = <<>> \/ Head(s) \notin Digits THEN <<>>
    ELSE <<Head(s)>> \o DigitPrefix(Tail(s))

RECURSIVE DecimalValue(_, _)
DecimalValue(s, acc) ==
    IF s = <<>> THEN acc ELSE DecimalValue(Tail(s), 10 * acc + DigitValue(Head(s)))

\* std::stoi on an unsigned decimal string: the value of the leading digits;
\* std::invalid_argument when there is none
stoi(s) ==
    IF DigitPrefix(s) = <<>> THEN [raised |-> TRUE, value |-> 0]
    ELSE [raised |-> FALSE, value |-> DecimalValue(DigitPrefix(s), 0)]

-----------------------------------------------------------------------------
(* The interpreter: the values of its global scope and what pybind11 does    *)
(* with them.                                                                *)

x == <<"x">>
nope == <<"n", "o", "p", "e">>
dunder_name == <<"_", "_", "n", "a", "m", "e", "_", "_">>
cache_1 == <<"_", "1">>
history_i1 == <<"_", "i", "1">>

PyInt == [py |-> "int", v |-> 1]
PyStr == [py |-> "str", v |-> "__main__"]
\* an instance of a user class: no JSON conversion, and a _repr_mimebundle_
PyObj == [py |-> "Foo", v |-> "<__main__.Foo object>"]
PyDict(d) == [py |-> "dict", v |-> d]

EmptyDict == [k \in {} |-> ""]

\* py::str(value.get_type()), line 139
type_str(value) ==
    <<"<", "c", "l", "a", "s", "s", " ", "'">>
    \o (CASE value.py = "int" -> <<"i", "n", "t">>
         [] value.py = "str" -> <<"s", "t", "r">>
         [] value.py = "dict" -> <<"d", "i", "c", "t">>
         [] value.py = "Foo" -> <<"_", "_", "m", "a", "i", "n", "_", "_", ".", "F", "o", "o">>)
    \o <<"'", ">">>

\* pybind11_json: a Python value as JSON; std::runtime_error for an object it
\* has no conversion for
to_json(value) ==
    CASE value.py = "int" -> [raised |-> FALSE, json |-> [t |-> "number", v |-> value.v]]
      [] value.py = "str" -> [raised |-> FALSE, json |-> [t |-> "string", v |-> value.v]]
      [] value.py = "dict" -> [raised |-> FALSE, json |-> [t |-> "object", v |-> value.v]]
      [] OTHER -> [raised |-> TRUE, json |-> [t |-> "null"]]

\* py::repr(value) assigned to a JSON value, line 137
repr(value) ==
    CASE value.py = "int" -> [t |-> "string", v |-> "1"]
      [] value.py = "str" -> [t |-> "string", v |-> "'__main__'"]
      [] value.py = "dict" -> [t |-> "string", v |-> "{...}"]
      [] OTHER -> [t |-> "string", v |-> value.v]

\* get_ipython().display_formatter.format(value): the (data, metadata) pair
Format(value) ==
    IF value.py = "Foo"
    THEN [data |-> [k \in {"text/plain", "image/png"} |->
                       IF k = "text/plain" THEN "<__main__.Foo object>" ELSE "iVBORw0KGgo="],
          metadata |-> [k \in {"image/png", "text/html"} |->
                       IF k = "image/png" THEN "width=10" ELSE "isolated"]]
    ELSE [data |-> [k \in {"text/plain"} |-> repr(value).v], metadata |-> EmptyDict]

Names(g) == { g[i].name : i \in 1..Len(g) }

\* g[name], name being a key of g
Lookup(g, name) == g[CHOOSE i \in 1..Len(g) : g[i].name = name].value

\* g[name] = value: an existing key keeps its place, a new one is appended
Assign(g, name, value) ==
    IF name \in Names(g)
    THEN [i \in 1..Len(g) |-> IF g[i].name = name THEN [name |-> name, value |-> value] ELSE g[i]]
    ELSE Append(g, [name |-> name, value |-> value])

\* the global scopes the handlers are run on
InitialGlobals ==
    { <<[name |-> dunder_name, value |-> PyStr]>> \o gx \o g1 \o gi :
        gx \in { <<>>, <<[name |-> x, value |-> PyInt]>>, <<[name |-> x, value |-> PyObj]>> },
        g1 \in { <<>>, <<[name |-> cache_1, value |-> PyInt]>> },
        gi \in { <<>>, <<[name |-> history_i1, value |-> PyStr]>> } }

-----------------------------------------------------------------------------
(* The variable filter, lines 79-114. *)

get_excluded_variables ==
    << <<"_", "_", "n", "a", "m", "e", "_", "_">>,
       <<"_", "_", "d", "o", "c", "_", "_">>,
       <<"_", "_", "p", "a", "c", "k", "a", "g", "e", "_", "_">>,
       <<"_", "_", "l", "o", "a", "d", "e", "r", "_", "_">>,
       <<"_", "_", "s", "p", "e", "c", "_", "_">>,
       <<"_", "_", "a", "n", "n", "o", "t", "a", "t", "i", "o", "n", "s", "_", "_">>,
       <<"_", "_", "b", "u", "i", "l", "t", "i", "n", "s", "_", "_">>,
       <<"_", "_", "b", "u", "i", "l", "t", "i", "n", "_", "_">>,
       <<"d", "i", "s", "p", "l", "a", "y">>,
       <<"g", "e", "t", "_", "i", "p", "y", "t", "h", "o", "n">>,
       <<"d", "e", "b", "u", "g", "p", "y">>,
       <<"e", "x", "i", "t">>,
       <<"q", "u", "i", "t">>,
       <<"I", "n">>,
       <<"O", "u", "t">>,
       <<"_", "o", "h">>,
       <<"_", "d", "h">>,
       <<"_">>,
       <<"_", "_">>,
       <<"_", "_", "_">> >>

isdigit(c) == c \in Digits

\* s[i] of a std::string for i <= size: the character, or the terminating
\* null at i = size
At(s, i) == IF i < Len(s) THEN s[i + 1] ELSE "NUL"

\* (mutant) the test of line 111 is missing
keep_variable_without_cache_rule(var_name) ==
    LET l == get_excluded_variables
        res1 == substr(var_name, 0, 2) # <<"_", "i">>
        res3 == res1 /\ ~(\E i \in 1..Len(l) : l[i] = var_name)
    IN  res3

keep_variable(var_name) ==
    LET l == get_excluded_variables
        res1 == substr(var_name, 0, 2) # <<"_", "i">>
        res2 == res1 /\ ~(At(var_name, 0) = "_" /\ isdigit(At(var_name, 1)))
        res3 == res2 /\ ~(\E i \in 1..Len(l) : l[i] = var_name)
    IN  res3

-----------------------------------------------------------------------------
(* JSON objects are functions from keys to values. *)

JsonNull == [t |-> "null"]

\* no message: the reply of a handler that raised
NoMessage == [type |-> "none"]

HasKey(obj, key) == key \in DOMAIN obj

\* obj[key] = value of nlohmann::json: the key is added or overwritten
JsonSet(obj, key, value) ==
    [k \in DOMAIN obj \cup {key} |-> IF k = key THEN value ELSE obj[k]]

\* the outcome of a handler invocation: `result` is "returned" with the reply,
\* or "raised" when an exception leaves the handler; `forwarded` holds the
\* requests passed to forward_message and `adapter_reply` what it returned
Returned(handler, message, steps, forwarded, adapter_reply, reply, g) ==
    [call |-> [handler |-> handler, request |-> message, steps |-> steps,
               forwarded |-> forwarded, adapter_reply |-> adapter_reply,
               result |-> "returned", reply |-> reply],
     globals |-> g]

Raised(handler, message, steps, forwarded, adapter_reply, g) ==
    [call |-> [handler |-> handler, request |-> message, steps |-> steps,
               forwarded |-> forwarded, adapter_reply |-> adapter_reply,
               result |-> "raised", reply |-> NoMessage],
     globals |-> g]

-----------------------------------------------------------------------------
(* debugger::inspect_variables_request, lines 117-158. *)

\* lines 129-142: the descriptor of one kept variable
\* (mutant) the catch of lines 135-138 leaves the value unset
variable_descriptor_without_fallback(var) ==
    LET conv == to_json(var.value)
        var_type == type_str(var.value)
        size == Len(var_type)
    IN  [name |-> var.name,
         variablesReference |-> 0,
         value |-> conv.json,
         type |-> substr(var_type, 8, size - 10)]

\* lines 125-143: the descriptor of one variable
variable_descriptor(var) ==
    LET conv == to_json(var.value)
        var_type == type_str(var.value)
        size == Len(var_type)
    IN  [name |-> var.name,
         variablesReference |-> 0,
         value |-> IF conv.raised THEN repr(var.value) ELSE conv.json,
         type |-> substr(var_type, 8, size - 10)]

\* (mutant) the loop without the filter of line 127
RECURSIVE json_vars_unfiltered(_)
json_vars_unfiltered(g) ==
    IF g = <<>> THEN <<>>
    ELSE <<variable_descriptor(Head(g))>> \o json_vars_unfiltered(Tail(g))

\* lines 123-145: the loop over the global scope
RECURSIVE json_vars(_)
json_vars(g) ==
    IF g = <<>> THEN <<>>
    ELSE (IF keep_variable(Head(g).name) THEN <<variable_descriptor(Head(g))>> ELSE <<>>)
         \o json_vars(Tail(g))

inspect_variables_request(message) ==
    LET reply == [type |-> "response",
                  request_seq |-> message.seq,
                  success |-> TRUE,
                  command |-> message.command,
                  body |-> [variables |-> json_vars(globals)]]
    IN  Returned("inspectVariables", message,
                 <<"gil_acquire", "globals", "read_values", "gil_release", "return">>,
                 <<>>, NoMessage, reply, globals)

-----------------------------------------------------------------------------
(* debugger::rich_inspect_variables_request, lines 160-225. *)

repr_data_suffix == <<"_", "r", "e", "p", "r", "_", "d", "a", "t", "a">>
repr_metadata_suffix == <<"_", "r", "e", "p", "r", "_", "m", "e", "t", "a", "d", "a">>

\* (mutant) the test of line 168 inverted
is_stopped_inverted == stopped_threads = {}

\* line 168
is_stopped == stopped_threads # {}

\* line 175: exec of "<data>,<metadata> = get_ipython().display_formatter
\* .format(<var_name>)" in the global scope; a NameError leaves it unchanged
exec_format(g, var_name, var_repr_data, var_repr_metadata) ==
    IF var_name \notin Names(g) THEN [raised |-> TRUE, globals |-> g]
    ELSE LET f == Format(Lookup(g, var_name))
         IN  [raised |-> FALSE,
              globals |-> Assign(Assign(g, var_repr_data, PyDict(f.data)),
                                 var_repr_metadata, PyDict(f.metadata))]

\* lines 185-194
set_expression_request(message, var_name, var_repr_data, var_repr_metadata) ==
    [type |-> "request",
     command |-> "setExpression",
     seq |-> message.seq + 1,
     arguments |-> [expression |-> <<var_repr_data, ",", var_repr_metadata>>,
                    value |-> <<"get_ipython().display_formatter.format(", var_name, ")">>,
                    frameId |-> message.arguments.frameId]]

\* what the external adapter does with the forwarded setExpression: it
\* evaluates the assignment in the frame, whose scope is the global scope
\* ("assign_globals") or a function's ("assign_locals"), or it rejects it
AdapterBehaviours == {"assign_globals", "assign_locals", "reject"}

adapter_set_expression(g, adapter, var_name, var_repr_data, var_repr_metadata) ==
    IF adapter = "assign_globals"
    THEN LET r == exec_format(g, var_name, var_repr_data, var_repr_metadata)
         IN  [success |-> ~r.raised, globals |-> r.globals]
    ELSE [success |-> adapter = "assign_locals", globals |-> g]

\* the adapter's response to the forwarded setExpression
set_expression_response(request, success) ==
    [type |-> "response", request_seq |-> request.seq, success |-> success,
     command |-> request.command, message |-> IF success THEN "" ELSE "NameError"]

\* (mutant) the metadata copied whole, without the test of line 216
rich_body_all_metadata(repr_data, repr_metadata) ==
    LET keys == DOMAIN repr_data
    IN  [data |-> IF keys = {} THEN JsonNull
                  ELSE [t |-> "object", v |-> [k \in keys |-> repr_data[k]]],
         metadata |-> IF DOMAIN repr_metadata = {} THEN JsonNull
                      ELSE [t |-> "object", v |-> repr_metadata]]

\* lines 209-221: the body built from the two mappings
rich_body(repr_data, repr_metadata) ==
    LET keys == DOMAIN repr_data
        both == { k \in keys : k \in DOMAIN repr_metadata }
    IN  [data |-> IF keys = {} THEN JsonNull
                  ELSE [t |-> "object", v |-> [k \in keys |-> repr_data[k]]],
         metadata |-> IF both = {} THEN JsonNull
                      ELSE [t |-> "object", v |-> [k \in both |-> repr_metadata[k]]]]

\* (mutant) the reply takes over the success of the forwarded request
rich_success_of_adapter(stopped, forwarded_success) == ~stopped \/ forwarded_success

\* line 223: the reply is a success whatever forward_message returned at
\* line 195
rich_success(stopped, forwarded_success) == TRUE

\* (mutant) the lock taken at the top of the handler, as in
\* inspect_variables_request
stopped_path_under_gil == <<"gil_acquire", "forward", "gil_release">>

\* lines 177-196: the stopped path forwards and takes no lock
stopped_path == <<"forward">>

\* lines 169-176: the direct path runs the code in a scope that holds the lock
direct_path == <<"gil_acquire", "exec", "gil_release">>

rich_inspect_variables_request(message, adapter) ==
    LET var_name == message.arguments.variableName
        var_repr_data == var_name \o repr_data_suffix
        var_repr_metadata == var_name \o repr_metadata_suffix
        direct == exec_format(globals, var_name, var_repr_data, var_repr_metadata)
        request == set_expression_request(message, var_name, var_repr_data,
                                          var_repr_metadata)
        remote == adapter_set_expression(globals, adapter, var_name, var_repr_data,
                                         var_repr_metadata)
        stopped == is_stopped
        steps1 == IF stopped THEN stopped_path ELSE direct_path
        forwarded == IF stopped THEN <<request>> ELSE <<>>
        answer == IF stopped THEN set_expression_response(request, remote.success)
                  ELSE NoMessage
        g1 == IF stopped THEN remote.globals ELSE direct.globals
        steps2 == steps1 \o <<"gil_acquire", "globals">>
    IN  IF ~stopped /\ direct.raised
        THEN Raised("richInspectVariables", message, steps1 \o <<"raise">>, forwarded,
                    answer, g1)
        ELSE IF var_repr_data \notin Names(g1)
        THEN Raised("richInspectVariables", message,
                    steps2 \o <<"gil_release", "raise">>, forwarded, answer, g1)
        ELSE IF var_repr_metadata \notin Names(g1)
        THEN Raised("richInspectVariables", message,
                    steps2 \o <<"read_data", "gil_release", "raise">>, forwarded,
                    answer, g1)
        ELSE LET repr_data == Lookup(g1, var_repr_data).v
                 repr_metadata == Lookup(g1, var_repr_metadata).v
                 reply == [type |-> "response",
                           request_seq |-> message.seq,
                           success |-> rich_success(stopped, remote.success),
                           command |-> message.command,
                           body |-> rich_body(repr_data, repr_metadata)]
             IN  Returned("richInspectVariables", message,
                          steps2 \o <<"read_data", "read_metadata", "gil_release", "return">>,
                          forwarded, answer, reply, g1)

-----------------------------------------------------------------------------
(* debugger::attach_request, lines 227-236. *)

\* the request with arguments.connect and arguments.logToFile set
attach_rewrite(message, port) ==
    LET arguments == IF HasKey(message, "arguments") THEN message.arguments ELSE <<>>
        with_connect == JsonSet(arguments, "connect",
                                [host |-> m_debugpy_host, port |-> port])
    IN  JsonSet(message, "arguments", JsonSet(with_connect, "logToFile", TRUE))

\* what the external adapter may answer to a forwarded request
AdapterReplies(request) ==
    { [type |-> "response", request_seq |-> request.seq, success |-> ok,
       command |-> request.command, message |-> IF ok THEN "" ELSE "attach failed"] :
        ok \in BOOLEAN }

attach_request(message, adapter_reply) ==
    LET port == stoi(m_debugpy_port)
        new_message == attach_rewrite(message, port.value)
    IN  IF port.raised
        THEN Raised("attach", message, <<"raise">>, <<>>, NoMessage, globals)
        ELSE Returned("attach", message, <<"forward", "return">>, <<new_message>>,
                      adapter_reply, adapter_reply, globals)

-----------------------------------------------------------------------------
(* debugger::configuration_done_request, lines 238-249. *)

\* (mutant) the reply built like the other handlers', without its own seq
configuration_done_request_without_seq(message) ==
    LET reply == [type |-> "response",
                  request_seq |-> message.seq,
                  success |-> TRUE,
                  command |-> message.command]
    IN  Returned("configurationDone", message, <<"return">>, <<>>, NoMessage, reply,
                 globals)

configuration_done_request(message) ==
    LET seq == message.seq
        reply == [seq |-> seq,
                  type |-> "response",
                  request_seq |-> message.seq,
                  success |-> TRUE,
                  command |-> message.command]
    IN  Returned("configurationDone", message, <<"return">>, <<>>, NoMessage, reply,
                 globals)

-----------------------------------------------------------------------------
(* Construction. *)

\* line 62: the range the port is looked for in
PortRangeStart == 5678
PortRangeEnd == 5900

\* what xeus::find_free_port(100, 5678, 5900) returns: a port of the range as
\* a string, or the empty string when its tries found none free
FreePortResults == { <<"5", "6", "7", "8">>, <<"5", "9", "0", "0">>, <<>> }

\* the debugger_config blob: with or without a "python" entry
DebuggerConfigs == { [python |-> "none"], [python |-> "/usr/bin/python3"] }

IdleOp == [name |-> "none", fault |-> "none", steps |-> <<>>, result |-> "none"]

NoProbe == [applied |-> FALSE, name |-> <<>>, result |-> FALSE]

NoCall ==
    [handler |-> "none", request |-> NoMessage, steps |-> <<>>, forwarded |-> <<>>,
     adapter_reply |-> NoMessage, result |-> "none", reply |-> NoMessage]

Init ==
    /\ m_debugpy_host = "127.0.0.1"
    /\ m_debugpy_port \in FreePortResults
    /\ m_debugger_config \in DebuggerConfigs
    /\ debugpy_started = [initialized |-> FALSE, value |-> FALSE]
    /\ shell_requests = <<>>
    /\ clog = <<>>
    /\ request_bound = FALSE
    /\ header_bound = FALSE
    /\ workers = <<>>
    /\ req_chan = 0
    /\ ack_chan = 0
    /\ start_pc = "idle"
    /\ calls = 0
    /\ op = IdleOp
    /\ globals \in InitialGlobals
    /\ stopped_threads = {}
    /\ call = NoCall
    /\ shell_replies = <<>>
    /\ filter_probe = NoProbe

-----------------------------------------------------------------------------
(* The bootstrap sequencer: debugger::start_debugpy. *)

\* lines 254-268: the snippet sent to the interpreter, piece by piece (the
\* XEUS_LOG dump of lines 256-261 writes a file and nothing else)
DebugpyCode ==
    <<"import debugpy;">>
    \o (IF m_debugger_config.python # "none"
        THEN <<"debugpy.configure({'python': r'", m_debugger_config.python, "'});">>
        ELSE <<>>)
    \o <<"debugpy.listen(('", m_debugpy_host, "',", m_debugpy_port, "))">>

OkReply == [status |-> "ok"]

ErrorReply ==
    [status |-> "error", ename |-> "ImportError",
     evalue |-> "No module named 'debugpy'", traceback |-> <<"tb line 1", "tb line 2">>]

\* what the shell answers to the snippet (line 271): "ok" or an error reply
\* with its exception, name, value and traceback; listening without a port
\* cannot succeed.  The shell always answers, with a reply of this shape.
send_to_shell(code) ==
    IF code[Len(code) - 1] = <<>> THEN {ErrorReply} ELSE {OkReply, ErrorReply}

\* (mutant) the loop of lines 278-281 is missing
start_debugpy_without_traceback(rep) ==
    [request |-> [code |-> DebugpyCode],
     log |-> IF rep.status # "ok"
             THEN << <<"Exception raised when trying to import debugpy">>,
                     <<rep.ename, " - ", rep.evalue>> >>
             ELSE <<>>,
     result |-> rep.status = "ok"]

\* lines 269-285: the request start_debugpy sends, what it logs for the reply
\* (each std::clog line as the pieces written to it), and what it returns
start_debugpy(rep) ==
    [request |-> [code |-> DebugpyCode],
     log |-> IF rep.status # "ok"
             THEN << <<"Exception raised when trying to import debugpy">> >>
                  \o [i \in 1..Len(rep.traceback) |-> <<rep.traceback[i]>>]
                  \o << <<rep.ename, " - ", rep.evalue>> >>
             ELSE <<>>,
     result |-> rep.status = "ok"]

-----------------------------------------------------------------------------
(* The sockets: zmq::socket_t::bind and unbind as start() and stop() use     *)
(* them.  Both throw zmq::error_t when zmq reports an error: binding an      *)
(* endpoint that is in use, unbinding an endpoint that was not bound         *)
(* (ENOENT), or any other failure of the call (fault).                       *)

bind(bound, fault) ==
    IF bound \/ fault THEN [raised |-> TRUE, bound |-> bound]
    ELSE [raised |-> FALSE, bound |-> TRUE]

unbind(bound, fault) ==
    IF ~bound \/ fault THEN [raised |-> TRUE, bound |-> bound]
    ELSE [raised |-> FALSE, bound |-> FALSE]

Faults == {"none", "request", "header"}

\* line 308: the endpoint handed to the worker
debugpy_end_point == <<"tcp://", m_debugpy_host, ":", m_debugpy_port>>

-----------------------------------------------------------------------------
(* debugger::start.  The call runs on the control thread up to the recv of   *)
(* line 319, where it blocks until a message arrives on the request socket;  *)
(* the worker threads run concurrently.                                      *)

\* (mutant) a plain local in place of the static: every call initializes it
static_init_pending_every_call == TRUE

\* line 295: a function-local static is initialized by the first call that
\* reaches it
static_init_pending == ~debugpy_started.initialized

\* (mutant) the early return of line 296 is missing
bootstrap_failed_ignored(started) == FALSE

\* line 296: the early return
bootstrap_failed(started) == ~started

\* lines 309-315: the thread that runs p_debugpy_client->start_debugger on
\* the endpoint, detached from the std::thread object at once
worker_thread ==
    [client |-> "p_debugpy_client", end_point |-> debugpy_end_point,
     detached |-> TRUE, joined |-> FALSE]

\* (mutant) the handshake token is sent before the worker is spawned and the
\* call returns without waiting for the acknowledgement
start_session_no_wait(fault) ==
    LET b1 == bind(request_bound, fault = "request")
        b2 == bind(header_bound, fault = "header")
    IN  IF b1.raised \/ b2.raised
        THEN [steps |-> <<"raise">>, request_bound |-> request_bound,
              header_bound |-> header_bound, workers |-> workers,
              req_chan |-> req_chan, result |-> "raised"]
        ELSE [steps |-> <<"bind_request", "bind_header", "send_REQ", "spawn_worker",
                          "detach_worker", "create_tmp_dir", "return_true">>,
              request_bound |-> b1.bound, header_bound |-> b2.bound,
              workers |-> Append(workers, worker_thread),
              req_chan |-> req_chan + 1, result |-> "true"]

\* (mutant) a worker is spawned only when none was spawned before
start_session_reusing_worker(fault) ==
    LET b1 == bind(request_bound, fault = "request")
        b2 == bind(header_bound, fault = "header")
    IN  IF b1.raised
        THEN [steps |-> <<"raise">>, request_bound |-> b1.bound,
              header_bound |-> header_bound, workers |-> workers,
              req_chan |-> req_chan, result |-> "raised"]
        ELSE IF b2.raised
        THEN [steps |-> <<"bind_request", "raise">>, request_bound |-> b1.bound,
              header_bound |-> b2.bound, workers |-> workers,
              req_chan |-> req_chan, result |-> "raised"]
        ELSE [steps |-> <<"bind_request", "bind_header">>
                        \o (IF workers = <<>> THEN <<"spawn_worker", "detach_worker">>
                            ELSE <<>>)
                        \o <<"send_REQ">>,
              request_bound |-> b1.bound, header_bound |-> b2.bound,
              workers |-> IF workers = <<>> THEN <<worker_thread>> ELSE workers,
              req_chan |-> req_chan + 1, result |-> "blocked"]

\* (mutant) a failed bind of the header endpoint unbinds the request endpoint
\* before the error leaves start()
start_session_with_rollback(fault) ==
    LET b1 == bind(request_bound, fault = "request")
        b2 == bind(header_bound, fault = "header")
    IN  IF b1.raised
        THEN [steps |-> <<"raise">>, request_bound |-> b1.bound,
              header_bound |-> header_bound, workers |-> workers,
              req_chan |-> req_chan, result |-> "raised"]
        ELSE IF b2.raised
        THEN [steps |-> <<"bind_request", "unbind_request", "raise">>,
              request_bound |-> FALSE,
              header_bound |-> b2.bound, workers |-> workers,
              req_chan |-> req_chan, result |-> "raised"]
        ELSE [steps |-> <<"bind_request", "bind_header", "spawn_worker",
                          "detach_worker", "send_REQ">>,
              request_bound |-> b1.bound, header_bound |-> b2.bound,
              workers |-> Append(workers, worker_thread),
              req_chan |-> req_chan + 1, result |-> "blocked"]

\* lines 301-317 of a call whose fault (if any) is `fault`: the steps taken and
\* the state they leave
start_session(fault) ==
    LET b1 == bind(request_bound, fault = "request")
        b2 == bind(header_bound, fault = "header")
    IN  IF b1.raised
        THEN [steps |-> <<"raise">>, request_bound |-> b1.bound,
              header_bound |-> header_bound, workers |-> workers,
              req_chan |-> req_chan, result |-> "raised"]
        ELSE IF b2.raised
        THEN [steps |-> <<"bind_request", "raise">>, request_bound |-> b1.bound,
              header_bound |-> b2.bound, workers |-> workers,
              req_chan |-> req_chan, result |-> "raised"]
        ELSE [steps |-> <<"bind_request", "bind_header", "spawn_worker",
                          "detach_worker", "send_REQ">>,
              request_bound |-> b1.bound, header_bound |-> b2.bound,
              workers |-> Append(workers, worker_thread),
              req_chan |-> req_chan + 1, result |-> "blocked"]

\* lines 290-317
StartCall(rep, fault) ==
    /\ start_pc = "idle"
    /\ calls < MaxStarts
    /\ calls' = calls + 1
    /\ LET first == static_init_pending
           boot == start_debugpy(rep)
           started == IF first THEN boot.result ELSE debugpy_started.value
           head == <<"create_log_dir">>
                   \o (IF first THEN <<"run_code">> ELSE <<>>)
                   \o <<IF started THEN "bootstrap_ok" ELSE "bootstrap_failed">>
           s == start_session(fault)
       IN  /\ debugpy_started' = [initialized |-> TRUE, value |-> started]
           /\ shell_requests' =
                  IF first THEN Append(shell_requests, boot.request) ELSE shell_requests
           /\ shell_replies' = IF first THEN Append(shell_replies, rep) ELSE shell_replies
           /\ clog' = IF first THEN clog \o boot.log ELSE clog
           /\ IF bootstrap_failed(started)
              THEN /\ op' = [name |-> "start", fault |-> fault,
                             steps |-> head \o <<"return_false">>, result |-> "false"]
                   /\ start_pc' = "idle"
                   /\ UNCHANGED <<sockets, transport>>
              ELSE /\ op' = [name |-> "start", fault |-> fault,
                             steps |-> head \o s.steps, result |-> s.result]
                   /\ start_pc' = IF s.result = "blocked" THEN "recv" ELSE "idle"
                   /\ request_bound' = s.request_bound
                   /\ header_bound' = s.header_bound
                   /\ workers' = s.workers
                   /\ req_chan' = s.req_chan
                   /\ UNCHANGED ack_chan
    /\ UNCHANGED <<filter_probe, session, interpreter, call>>

\* a call of start(): the reply of the shell matters to the call that runs the
\* bootstrap sequencer only
Start ==
    \E fault \in Faults :
        \E rep \in (IF static_init_pending THEN send_to_shell(DebugpyCode) ELSE {OkReply}) :
            StartCall(rep, fault)

\* lines 319-324: the recv returns with the first message on the request
\* socket, then the staging directory is created and start() returns true
StartRecv ==
    /\ start_pc = "recv"
    /\ ack_chan > 0
    /\ ack_chan' = ack_chan - 1
    /\ start_pc' = "idle"
    /\ op' = [name |-> "start", fault |-> op.fault,
              steps |-> op.steps \o <<"recv_ack", "create_tmp_dir", "return_true">>,
              result |-> "true"]
    /\ UNCHANGED <<filter_probe, session, bootstrap, sockets, workers, req_chan, calls, interpreter, call>>

\* (mutant) a worker that takes the handshake token and sends nothing back
WorkerAck_without_reply ==
    /\ workers # <<>>
    /\ req_chan > 0
    /\ req_chan' = req_chan - 1
    /\ UNCHANGED <<filter_probe, session, bootstrap, sockets, workers, ack_chan, start_pc, calls, op, interpreter, call>>

\* a worker thread (xdap_tcp_client::start_debugger, spawned at line 309)
\* takes the handshake token and acknowledges it
WorkerAck ==
    /\ workers # <<>>
    /\ req_chan > 0
    /\ req_chan' = req_chan - 1
    /\ ack_chan' = ack_chan + 1
    /\ UNCHANGED <<filter_probe, session, bootstrap, sockets, workers, start_pc, calls, op, interpreter, call>>

-----------------------------------------------------------------------------
(* debugger::stop, lines 327-333. *)

stop_session(fault) ==
    LET u1 == unbind(request_bound, fault = "request")
        u2 == unbind(header_bound, fault = "header")
    IN  IF u1.raised
        THEN [steps |-> <<"raise">>, request_bound |-> u1.bound,
              header_bound |-> header_bound, result |-> "raised"]
        ELSE IF u2.raised
        THEN [steps |-> <<"unbind_request", "raise">>, request_bound |-> u1.bound,
              header_bound |-> u2.bound, result |-> "raised"]
        ELSE [steps |-> <<"unbind_request", "unbind_header", "return">>,
              request_bound |-> u1.bound, header_bound |-> u2.bound,
              result |-> "returned"]

StopCall(fault) ==
    /\ start_pc = "idle"
    /\ LET s == stop_session(fault)
       IN  /\ request_bound' = s.request_bound
           /\ header_bound' = s.header_bound
           /\ op' = [name |-> "stop", fault |-> fault, steps |-> s.steps,
                     result |-> s.result]
    /\ UNCHANGED <<filter_probe, session, bootstrap, transport, start_pc, calls, interpreter, call>>

Stop == \E fault \in Faults : StopCall(fault)

-----------------------------------------------------------------------------

Lifecycle == Start \/ StartRecv \/ WorkerAck \/ Stop

SpecLifecycle == Init /\ [][Lifecycle]_vars

\* The same with the scheduling the handshake relies on: a spawned worker
\* thread runs (it is an operating-system thread of its own, and it answers
\* the token it finds), and the blocking recv of line 319 returns once a
\* message is on the request socket.
SpecLifecycleFair == SpecLifecycle /\ WF_vars(WorkerAck) /\ WF_vars(StartRecv)

-----------------------------------------------------------------------------
(* The requests the dispatch table hands to the handlers (lines 63-66). *)

Seqs == {1, 7}
FrameIds == {3, 4}

InspectVariablesRequests ==
    { [type |-> "request", seq |-> s, command |-> "inspectVariables"] : s \in Seqs }

RichInspectVariablesRequests ==
    { [type |-> "request", seq |-> s, command |-> "richInspectVariables",
       arguments |-> [variableName |-> n, frameId |-> f]] :
        s \in Seqs, n \in {x, nope}, f \in FrameIds }

AttachArguments ==
    { [justMyCode |-> FALSE],
      [justMyCode |-> TRUE, logToFile |-> FALSE,
       connect |-> [host |-> "10.0.0.1", port |-> 1234]] }

AttachRequests ==
    { [type |-> "request", seq |-> s, command |-> "attach"] : s \in Seqs }
    \cup { [type |-> "request", seq |-> s, command |-> "attach", arguments |-> a] :
             s \in Seqs, a \in AttachArguments }

ConfigurationDoneRequests ==
    { [type |-> "request", seq |-> s, command |-> "configurationDone"] : s \in Seqs }

\* a handler runs on the control thread, to its return or its exception
Handle(outcome) ==
    /\ start_pc = "idle"
    /\ call' = outcome.call
    /\ globals' = outcome.globals
    /\ UNCHANGED <<filter_probe, session, lifecycle, stopped_threads>>

InspectVariables ==
    \E message \in InspectVariablesRequests :
        Handle(inspect_variables_request(message))

RichInspectVariables ==
    \E message \in RichInspectVariablesRequests :
        \E adapter \in (IF is_stopped THEN AdapterBehaviours ELSE {"reject"}) :
            Handle(rich_inspect_variables_request(message, adapter))

Attach ==
    \E message \in AttachRequests :
        \E adapter_reply \in AdapterReplies(attach_rewrite(message, stoi(m_debugpy_port).value)) :
            Handle(attach_request(message, adapter_reply))

ConfigurationDone ==
    \E message \in ConfigurationDoneRequests :
        Handle(configuration_done_request(message))

\* the base session's record of the stopped threads follows the adapter's
\* "stopped" and "continued" events
Threads == 1..MaxThreads

ThreadStopped ==
    \E t \in Threads \ stopped_threads :
        /\ stopped_threads' = stopped_threads \cup {t}
        /\ UNCHANGED <<filter_probe, session, lifecycle, globals, call>>

ThreadContinued ==
    \E t \in stopped_threads :
        /\ stopped_threads' = stopped_threads \ {t}
        /\ UNCHANGED <<filter_probe, session, lifecycle, globals, call>>

Handlers ==
    \/ InspectVariables
    \/ RichInspectVariables
    \/ Attach
    \/ ConfigurationDone
    \/ ThreadStopped
    \/ ThreadContinued

SpecHandlers == Init /\ [][Handlers]_vars

\* the lifecycle together with the one handler that uses the host and the
\* port of the session
Session == Lifecycle \/ Attach

SpecSession == Init /\ [][Session]_vars


-----------------------------------------------------------------------------
(* The variable filter applied to names of every shape. *)

my_var == <<"m", "y", "_", "v", "a", "r">>

NameAlphabet == {"_", "i", "1", "x"}

\* the names of the list, "my_var", and every name of up to MaxNameLen
\* characters of the alphabet (the empty name among them)
FilterInputs ==
    { get_excluded_variables[i] : i \in 1..Len(get_excluded_variables) }
    \cup {my_var}
    \cup UNION { [1..n -> NameAlphabet] : n \in 0..MaxNameLen }

\* line 127: keep_variable applied to a name
KeepVariable ==
    \E var_name \in FilterInputs :
        /\ filter_probe' = [applied |-> TRUE, name |-> var_name,
                            result |-> keep_variable(var_name)]
        /\ UNCHANGED <<session, lifecycle, interpreter, call>>

SpecFilter == Init /\ [][KeepVariable]_vars

\* the whole program; the lifecycle and the handlers share the session's
\* host, port and configuration only, and are checked apart under
\* SpecLifecycle and SpecHandlers
Next == Lifecycle \/ Handlers \/ KeepVariable

Spec == Init /\ [][Next]_vars

-----------------------------------------------------------------------------
(* Properties of the lifecycle, checked under SpecLifecycle. *)

StartReturns == calls' = calls + 1

\* C1: over any sequence of start() calls the bootstrap sequencer runs at most
\* once (at most one 'run code' request is ever sent); once the static holds a
\* result, no later step changes it or sends another request, and a later
\* start() follows the cached result: it returns false when the cached result
\* is failure and goes on to the binds when it is success.
C1_BootstrapAtMostOnce ==
    [][ /\ Len(shell_requests') <= 1
        /\ debugpy_started.initialized =>
              /\ debugpy_started' = debugpy_started
              /\ shell_requests' = shell_requests
              /\ clog' = clog
              /\ StartReturns =>
                    /\ "run_code" \notin { op'.steps[i] : i \in 1..Len(op'.steps) }
                    /\ (op'.result = "false") = ~debugpy_started.value ]_vars

\* a second start() has returned true on the cached success of the first
C1_Witness ==
    /\ calls >= 2
    /\ op.name = "start" /\ op.result = "true"
    /\ Len(shell_requests) = 1

\* C2: a start() call whose bootstrap result is failure returns false, and on
\* that call nothing is bound, no worker is spawned, no token is sent and no
\* acknowledgement is awaited: both sockets are as they were before the call.
C2_FailedBootstrapBindsNothing ==
    [][ (StartReturns /\ ~debugpy_started'.value) =>
            /\ op'.name = "start" /\ op'.result = "false"
            /\ request_bound' = request_bound
            /\ header_bound' = header_bound
            /\ workers' = workers
            /\ req_chan' = req_chan /\ ack_chan' = ack_chan
            /\ start_pc' = "idle"
            /\ op'.steps[Len(op'.steps) - 1] = "bootstrap_failed" ]_vars

\* start() has returned false twice, the second time on the cached failure
C2_Witness ==
    /\ calls >= 2
    /\ op.name = "start" /\ op.result = "false"
    /\ ~debugpy_started.value
    /\ ~request_bound /\ ~header_bound /\ workers = <<>> /\ req_chan = 0

\* the steps of a call from its bootstrap check on
RECURSIVE FromBootstrap(_)
FromBootstrap(steps) ==
    IF steps = <<>> \/ Head(steps) \in {"bootstrap_ok", "bootstrap_failed"} THEN steps
    ELSE FromBootstrap(Tail(steps))

\* C3: start() returns true only by receiving an acknowledgement on the request
\* socket while blocked after the handshake, and a call that returns true has
\* taken its steps in this order: bootstrap success, bind the request endpoint,
\* bind the header endpoint, spawn and detach the worker, send "REQ", receive
\* the acknowledgement, return true.
C3_TrueOnlyAfterAck ==
    [][ (op'.name = "start" /\ op'.result = "true" /\ op' # op) =>
            /\ start_pc = "recv" /\ op.result = "blocked"
            /\ ack_chan > 0 /\ ack_chan' = ack_chan - 1
            /\ request_bound /\ header_bound /\ workers # <<>>
            /\ debugpy_started.value
            /\ FromBootstrap(op'.steps) =
                  <<"bootstrap_ok", "bind_request", "bind_header", "spawn_worker",
                    "detach_worker", "send_REQ", "recv_ack", "create_tmp_dir",
                    "return_true">> ]_vars

\* the first start() has returned true
C3_Witness ==
    /\ calls = 1
    /\ op.name = "start" /\ op.result = "true"
    /\ start_pc = "idle" /\ req_chan = 0 /\ ack_chan = 0

\* C4 (as claimed): a stop() that meets no socket fault, whatever the state of
\* the endpoints (after another stop(), or never bound), returns normally and
\* leaves both endpoints unbound.
C4_StopIdempotent ==
    (op.name = "stop" /\ op.fault = "none") =>
        /\ op.result = "returned"
        /\ ~request_bound /\ ~header_bound

-----------------------------------------------------------------------------
(* Properties of the handlers, checked under SpecHandlers. *)

\* a step of the handler named h: every handler step leaves the record of the
\* stopped threads alone, every thread event changes it
HandlerStep(h) == call'.handler = h /\ stopped_threads' = stopped_threads

StepNames(c) == { c.steps[i] : i \in 1..Len(c.steps) }

\* C5 (as claimed): every inspectVariables, richInspectVariables and
\* configurationDone request gets one response from its handler, of type
\* "response", with request_seq the request's seq, command the request's
\* command and success true.
C5_LocalHandlersRespond ==
    call.handler \in {"inspectVariables", "richInspectVariables", "configurationDone"} =>
        /\ call.result = "returned"
        /\ call.reply.type = "response"
        /\ call.reply.request_seq = call.request.seq
        /\ call.reply.command = call.request.command
        /\ call.reply.success = TRUE

\* C6 (as claimed): every invocation of one of the four handlers returns a
\* response to its caller, on its failure paths too.
C6_NoRequestUnanswered ==
    call.handler # "none" =>
        /\ call.result = "returned"
        /\ call.reply # NoMessage

\* C7 (as claimed): the attach handler forwards exactly one request, the
\* incoming one with arguments.connect = {host, port as an integer} and
\* arguments.logToFile = true and everything else as it came, and returns the
\* adapter's reply unchanged.
C7_AttachForwardsRewritten ==
    call.handler = "attach" =>
        /\ call.result = "returned"
        /\ Len(call.forwarded) = 1
        /\ call.reply = call.adapter_reply
        /\ LET in == call.request
               out == call.forwarded[1]
               in_args == IF HasKey(in, "arguments") THEN in.arguments ELSE <<>>
           IN  /\ DOMAIN out = DOMAIN in \cup {"arguments"}
               /\ out.seq = in.seq /\ out.command = in.command /\ out.type = in.type
               /\ DOMAIN out.arguments = DOMAIN in_args \cup {"connect", "logToFile"}
               /\ out.arguments.connect.host = m_debugpy_host
               /\ stoi(m_debugpy_port).value = out.arguments.connect.port
               /\ out.arguments.logToFile = TRUE
               /\ \A k \in DOMAIN in_args \ {"connect", "logToFile"} :
                      out.arguments[k] = in_args[k]

\* C8: a configurationDone request with seq s is answered with exactly
\* {seq: s, type: "response", request_seq: s, success: true, command: the
\* request's command} and no body; the handler forwards nothing, touches the
\* interpreter at no step and changes neither the interpreter's nor the
\* session's state.
C8_ConfigurationDoneIsLocal ==
    [][ HandlerStep("configurationDone") =>
            /\ call'.result = "returned"
            /\ call'.reply = [seq |-> call'.request.seq,
                              type |-> "response",
                              request_seq |-> call'.request.seq,
                              success |-> TRUE,
                              command |-> call'.request.command]
            /\ call'.forwarded = <<>>
            /\ call'.steps = <<"return">>
            /\ UNCHANGED <<globals, stopped_threads, session, lifecycle>> ]_vars

\* the request {seq: 7, command: configurationDone} has been answered while a
\* thread is stopped
C8_Witness ==
    /\ call.handler = "configurationDone"
    /\ call.request.seq = 7
    /\ call.reply.request_seq = 7
    /\ stopped_threads # {}

\* C9: richInspectVariables takes one of two paths by the stopped threads at
\* handling time.  With none stopped it executes the formatting code in the
\* interpreter and forwards nothing; with one or more stopped it executes
\* nothing in the interpreter and forwards exactly one request: a
\* setExpression with seq the incoming seq + 1 and frameId the incoming frameId.
C9_RichInspectPaths ==
    [][ HandlerStep("richInspectVariables") =>
            IF stopped_threads = {}
            THEN /\ "exec" \in StepNames(call')
                 /\ call'.forwarded = <<>>
            ELSE /\ "exec" \notin StepNames(call')
                 /\ Len(call'.forwarded) = 1
                 /\ call'.forwarded[1].type = "request"
                 /\ call'.forwarded[1].command = "setExpression"
                 /\ call'.forwarded[1].seq = call'.request.seq + 1
                 /\ call'.forwarded[1].arguments.frameId =
                        call'.request.arguments.frameId ]_vars

\* a richInspectVariables request with seq 7 has been answered on the stopped
\* path
C9_Witness ==
    /\ call.handler = "richInspectVariables"
    /\ call.result = "returned"
    /\ stopped_threads # {}
    /\ Len(call.forwarded) = 1
    /\ call.forwarded[1].seq = 8

\* C10: body.variables of the inspectVariables reply holds exactly one
\* descriptor for each global name that keep_variable keeps and none for any
\* other name, each with variablesReference 0; the globals {__name__, x, _1}
\* yield one descriptor, for x.
C10_InspectListsKeptNames ==
    call.handler = "inspectVariables" =>
        /\ call.result = "returned"
        /\ LET variables == call.reply.body.variables
               Count(n) == Cardinality({ j \in 1..Len(variables) : variables[j].name = n })
           IN  /\ \A i \in 1..Len(globals) :
                      Count(globals[i].name) =
                          IF keep_variable(globals[i].name) THEN 1 ELSE 0
               /\ \A j \in 1..Len(variables) :
                      /\ variables[j].name \in Names(globals)
                      /\ variables[j].variablesReference = 0
               /\ Names(globals) = {dunder_name, x, cache_1} =>
                      /\ Len(variables) = 1
                      /\ variables[1].name = x

\* inspectVariables has answered on the globals {__name__, x, _1}
C10_Witness ==
    /\ call.handler = "inspectVariables"
    /\ call.result = "returned"
    /\ Names(globals) = {dunder_name, x, cache_1}
    /\ Len(call.reply.body.variables) = 1

-----------------------------------------------------------------------------
(* Properties of the variable filter, checked under SpecFilter. *)

ExcludedNames == { get_excluded_variables[i] : i \in 1..Len(get_excluded_variables) }

\* C11: keep_variable(name) is true exactly when the name does not start with
\* "_i", is not "_" followed at once by a digit, and is no member of the
\* excluded list; so it is false for every member of the list, for every
\* name _<digit>... and for "__", and true for "my_var".  Applying it changes
\* nothing but the record of the application.
C11_KeepRule ==
    [][ filter_probe'.applied =>
          LET n == filter_probe'.name
              kept == filter_probe'.result
              history == Len(n) >= 2 /\ n[1] = "_" /\ n[2] = "i"
              cache == Len(n) >= 2 /\ n[1] = "_"
                       /\ n[2] \in {"0", "1", "2", "3", "4", "5", "6", "7", "8", "9"}
          IN  /\ kept = (~history /\ ~cache /\ n \notin ExcludedNames)
              /\ n \in ExcludedNames => ~kept
              /\ cache => ~kept
              /\ n = <<"_", "_">> => ~kept
              /\ n = my_var => kept
              /\ Len(get_excluded_variables) = 20
              /\ UNCHANGED <<session, lifecycle, interpreter, call>> ]_vars

\* keep_variable has been applied to "my_var" and kept it
C11_Witness ==
    /\ filter_probe.applied
    /\ filter_probe.name = my_var
    /\ filter_probe.result = TRUE

-----------------------------------------------------------------------------
(* Properties of the bootstrap sequencer and of the session's resources,     *)
(* checked under SpecLifecycle.                                              *)

\* the call of start() that ran the bootstrap sequencer
BootstrapRuns == Len(shell_replies') = Len(shell_replies) + 1

\* C12: the bootstrap sequencer returns true exactly when the reply of the
\* interpreter has status "ok"; for another status it returns false, and by
\* then the exception name, its message and every line of the traceback of
\* the reply are in the log (and an "ok" reply logs nothing).
C12_BootstrapResult ==
    [][ BootstrapRuns =>
          LET rep == shell_replies'[Len(shell_replies')]
              logged == { clog'[i] : i \in (Len(clog) + 1)..Len(clog') }
              pieces == UNION { { line[j] : j \in 1..Len(line) } : line \in logged }
          IN  /\ debugpy_started'.value = (rep.status = "ok")
              /\ rep.status = "ok" => clog' = clog
              /\ rep.status # "ok" =>
                    /\ op'.result = "false"
                    /\ rep.ename \in pieces
                    /\ rep.evalue \in pieces
                    /\ \A i \in 1..Len(rep.traceback) : <<rep.traceback[i]>> \in logged ]_vars

\* a bootstrap that failed: start() returned false and the two traceback
\* lines of the reply are logged
C12_Witness ==
    /\ Len(shell_replies) = 1
    /\ shell_replies[1].status = "error"
    /\ ~debugpy_started.value
    /\ op.name = "start"
    /\ op.result = "false"
    /\ Len(clog) = 4

-----------------------------------------------------------------------------
(* Properties of the two inspection handlers, checked under SpecHandlers. *)

\* the global `name` of scope g holds a value
Holds(g, name) == name \in Names(g)

\* what follows the forward call in the steps of a call
RECURSIVE AfterForward(_)
AfterForward(steps) ==
    IF steps = <<>> THEN <<>>
    ELSE IF Head(steps) = "forward" THEN Tail(steps)
    ELSE AfterForward(Tail(steps))

\* C13: on the stopped path of richInspectVariables the read-back of the two
\* synthetic globals follows the forward call at once, and the answer does
\* not depend on the response to the forwarded setExpression: when the two
\* globals hold values at read-back the reply is success=true with the body
\* built from those values, whether the adapter answered success or failure
\* (and the handler raises exactly when one of them holds nothing).
C13_StoppedPathIgnoresResponse ==
    [][ HandlerStep("richInspectVariables") /\ stopped_threads # {} =>
          LET var_name == call'.request.arguments.variableName
              data == var_name \o repr_data_suffix
              metadata == var_name \o repr_metadata_suffix
              after == AfterForward(call'.steps)
          IN  /\ call'.adapter_reply.type = "response"
              /\ call'.adapter_reply.success \in BOOLEAN
              /\ Len(after) >= 2
              /\ after[1] = "gil_acquire"
              /\ after[2] = "globals"
              /\ (call'.result = "returned") = (Holds(globals', data) /\ Holds(globals', metadata))
              /\ call'.result = "returned" =>
                    /\ call'.reply.success = TRUE
                    /\ call'.reply.request_seq = call'.request.seq
                    /\ call'.reply.body = rich_body(Lookup(globals', data).v,
                                                     Lookup(globals', metadata).v) ]_vars

\* the adapter answered the forwarded setExpression with a failure and the
\* handler replied success=true with what the synthetic globals held
C13_Witness ==
    /\ call.handler = "richInspectVariables"
    /\ call.result = "returned"
    /\ Len(call.forwarded) = 1
    /\ call.adapter_reply.success = FALSE
    /\ call.reply.success = TRUE
    /\ call.reply.body.data # JsonNull

\* steps is a run in which every access to the interpreter is made with the
\* lock held, the lock is not held across a forward call, is released
\* before it is taken again, and is released at the end
RECURSIVE LockDiscipline(_, _)
LockDiscipline(steps, held) ==
    IF steps = <<>> THEN ~held
    ELSE LET step == Head(steps)
         IN  /\ step \in {"globals", "exec", "read_values", "read_data", "read_metadata"}
                   => held
             /\ step = "forward" => ~held
             /\ step = "gil_acquire" => ~held
             /\ step = "gil_release" => held
             /\ LockDiscipline(Tail(steps),
                                IF step = "gil_acquire" THEN TRUE
                                ELSE IF step = "gil_release" THEN FALSE
                                ELSE held)

\* C14: every access of a handler to the interpreter (the enumeration of the
\* globals, the run of the formatting code, the read of the synthetic
\* globals) is made with the global interpreter lock held, and no handler
\* holds the lock it took during a forward call: the direct path of
\* richInspectVariables releases its lock before the read-back takes it
\* again, and the stopped path forwards without it.
C14_LockDiscipline ==
    /\ LockDiscipline(call.steps, FALSE)
    /\ call.handler = "inspectVariables" =>
          {"gil_acquire", "globals"} \subseteq StepNames(call)
    /\ call.handler = "richInspectVariables" /\ call.forwarded = <<>> =>
          /\ Len(call.steps) >= 4
          /\ SubSeq(call.steps, 1, 3) = <<"gil_acquire", "exec", "gil_release">>
          /\ "globals" \in StepNames(call) =>
                SubSeq(call.steps, 4, 5) = <<"gil_acquire", "globals">>
    /\ call.handler = "richInspectVariables" /\ call.forwarded # <<>> =>
          /\ Len(call.steps) >= 3
          /\ SubSeq(call.steps, 1, 3) = <<"forward", "gil_acquire", "globals">>

\* a richInspectVariables call on the stopped path that forwarded and then
\* read both synthetic globals
C14_Witness ==
    /\ call.handler = "richInspectVariables"
    /\ call.steps = <<"forward", "gil_acquire", "globals", "read_data", "read_metadata",
                      "gil_release", "return">>

\* the keys of a JSON value: those of the object, none for null
JsonKeys(json) == IF json.t = "object" THEN DOMAIN json.v ELSE {}

\* C15: in the richInspectVariables reply body.data has exactly the keys of
\* the data mapping read back from the synthetic globals, each with that
\* mapping's value, and body.metadata has exactly the keys found in both
\* mappings, each with the metadata mapping's value; so the keys of
\* body.metadata are among those of body.data and a metadata key the data
\* mapping lacks is not reported.
C15_BodyKeys ==
    [][ HandlerStep("richInspectVariables") /\ call'.result = "returned" =>
          LET var_name == call'.request.arguments.variableName
              repr_data == Lookup(globals', var_name \o repr_data_suffix).v
              repr_metadata == Lookup(globals', var_name \o repr_metadata_suffix).v
              data == call'.reply.body.data
              metadata == call'.reply.body.metadata
          IN  /\ JsonKeys(data) = DOMAIN repr_data
              /\ \A k \in JsonKeys(data) : data.v[k] = repr_data[k]
              /\ JsonKeys(metadata) = DOMAIN repr_data \cap DOMAIN repr_metadata
              /\ \A k \in JsonKeys(metadata) : metadata.v[k] = repr_metadata[k]
              /\ JsonKeys(metadata) \subseteq JsonKeys(data)
              /\ \A k \in DOMAIN repr_metadata \ DOMAIN repr_data :
                     k \notin JsonKeys(metadata) ]_vars

\* a reply for a value whose metadata mapping has a key (text/html) that its
\* data mapping lacks
C15_Witness ==
    /\ call.handler = "richInspectVariables"
    /\ call.result = "returned"
    /\ call.request.arguments.variableName = x
    /\ x \in Names(globals)
    /\ Lookup(globals, x) = PyObj
    /\ JsonKeys(call.reply.body.data) = {"text/plain", "image/png"}
    /\ JsonKeys(call.reply.body.metadata) = {"image/png"}

\* the value of the variable has no JSON conversion
ExtractionFails(var) == to_json(var.value).raised

\* the scope g with an integer in place of every value that has no conversion
WithoutFailure(g) ==
    [i \in 1..Len(g) |-> IF ExtractionFails(g[i])
                         THEN [name |-> g[i].name, value |-> PyInt] ELSE g[i]]

-----------------------------------------------------------------------------
(* Properties of the worker threads and of the socket errors, checked under  *)
(* SpecLifecycle.                                                            *)

StopReturns == op'.name = "stop" /\ calls' = calls /\ start_pc' = start_pc
               /\ req_chan' = req_chan /\ ack_chan' = ack_chan

\* the bind of the request endpoint by this call of start() succeeds
RequestBindSucceeds == ~request_bound /\ op'.fault # "request"

\* the bind of the header endpoint by this call of start() succeeds
HeaderBindSucceeds == ~header_bound /\ op'.fault # "header"

\* the call of start() passes the bootstrap check and both binds
PassesBootstrapAndBinds ==
    /\ StartReturns
    /\ debugpy_started'.value
    /\ RequestBindSucceeds
    /\ HeaderBindSucceeds

\* C17: a start() call that passes the bootstrap check and both binds spawns
\* exactly one worker thread, detached, on the client handle and the
\* endpoint of the session; no other step (no other start(), no stop(), no
\* return of start()) adds, joins or ends a worker.  So after start(),
\* stop(), start() two workers run on the same client handle and none of
\* them has been joined.
C17_OneDetachedWorkerPerStart ==
    [][ /\ IF PassesBootstrapAndBinds
           THEN /\ Len(workers') = Len(workers) + 1
                /\ SubSeq(workers', 1, Len(workers)) = workers
                /\ workers'[Len(workers')].client = "p_debugpy_client"
                /\ workers'[Len(workers')].end_point = debugpy_end_point
           ELSE workers' = workers
        /\ \A i \in 1..Len(workers') :
              /\ workers'[i].detached
              /\ ~workers'[i].joined
              /\ workers'[i].client = workers'[1].client ]_vars

\* start(), stop(), start(): two workers on the same client handle, the first
\* one not joined
C17_Witness ==
    /\ calls = 2
    /\ op.name = "start" /\ op.result = "true"
    /\ Len(workers) = 2
    /\ workers[1].client = workers[2].client
    /\ ~workers[1].joined /\ workers[1].detached

\* C18: a bind or unbind that fails ends start() or stop() at that step with
\* the error, nothing being retried or undone: when the bind of the header
\* endpoint fails in start() no worker is spawned, no token is sent and the
\* request endpoint bound just before stays bound; when the unbind of the
\* request endpoint fails in stop() the header endpoint is left as it was.
C18_SocketErrorAborts ==
    [][ /\ (StartReturns /\ debugpy_started'.value /\ ~RequestBindSucceeds) =>
              /\ op'.result = "raised"
              /\ UNCHANGED <<sockets, transport>>
        /\ (StartReturns /\ debugpy_started'.value /\ RequestBindSucceeds
               /\ ~HeaderBindSucceeds) =>
              /\ op'.result = "raised"
              /\ request_bound'
              /\ header_bound' = header_bound
              /\ UNCHANGED transport
              /\ start_pc' = "idle"
        /\ (StopReturns /\ (~request_bound \/ op'.fault = "request")) =>
              /\ op'.result = "raised"
              /\ UNCHANGED sockets
        /\ (StopReturns /\ request_bound /\ op'.fault # "request"
               /\ (~header_bound \/ op'.fault = "header")) =>
              /\ op'.result = "raised"
              /\ ~request_bound'
              /\ header_bound' = header_bound ]_vars

\* start() failed at the bind of the header endpoint: the request endpoint
\* is bound, the header endpoint is not, and no worker was spawned
C18_Witness ==
    /\ op.name = "start" /\ op.result = "raised" /\ op.fault = "header"
    /\ request_bound /\ ~header_bound
    /\ workers = <<>> /\ req_chan = 0

-----------------------------------------------------------------------------
(* The handshake, checked under SpecLifecycleFair. *)

\* start() is in the recv of line 319
StartBlocked == start_pc = "recv"

\* C19: a start() that is past the bootstrap check and both binds is blocked
\* in its recv with the session bootstrapped, both endpoints bound and a
\* worker spawned; when the worker acknowledges, start() returns true; and
\* recv has no timeout: nothing but the receipt of an acknowledgement ends
\* the wait, so without one start() stays blocked.
C19_HandshakeCompletes ==
    /\ [](StartBlocked => /\ debugpy_started.value
                           /\ request_bound /\ header_bound
                           /\ workers # <<>>
                           /\ op.name = "start" /\ op.result = "blocked")
    /\ (StartBlocked ~> (start_pc = "idle" /\ op.name = "start" /\ op.result = "true"))
    /\ [][ StartBlocked =>
              \/ start_pc' = "recv" /\ op' = op /\ calls' = calls
              \/ /\ ack_chan > 0
                 /\ ack_chan' = ack_chan - 1
                 /\ start_pc' = "idle"
                 /\ op'.result = "true" ]_vars

\* the worker has acknowledged the token and start() is about to return
C19_Witness ==
    /\ StartBlocked
    /\ req_chan = 0 /\ ack_chan = 1
    /\ request_bound /\ header_bound

-----------------------------------------------------------------------------
(* The host and the port of the session, checked under SpecSession. *)

\* the arguments of debugpy.listen in the code of a 'run code' request
ListenArguments(request) ==
    [host |-> request.code[Len(request.code) - 3],
     port |-> request.code[Len(request.code) - 1]]

\* C20 (as claimed): the host of the session is "127.0.0.1" and its port a
\* port of the range 5678..5900, both fixed at construction and changed by no
\* operation; the host and port given to debugpy.listen at bootstrap, the
\* endpoint of every worker thread and the connect argument set in every
\* attach request denote this host and this port.
C20_HostAndPortFixed ==
    /\ [](/\ m_debugpy_host = "127.0.0.1"
          /\ ~stoi(m_debugpy_port).raised
          /\ stoi(m_debugpy_port).value \in PortRangeStart..PortRangeEnd)
    /\ [][UNCHANGED <<m_debugpy_host, m_debugpy_port>>]_vars
    /\ [](/\ \A i \in 1..Len(shell_requests) :
                ListenArguments(shell_requests[i]) =
                    [host |-> m_debugpy_host, port |-> m_debugpy_port]
          /\ \A i \in 1..Len(workers) :
                workers[i].end_point = <<"tcp://", m_debugpy_host, ":", m_debugpy_port>>
          /\ call.handler = "attach" =>
                /\ Len(call.forwarded) = 1
                /\ call.forwarded[1].arguments.connect.host = m_debugpy_host
                /\ call.forwarded[1].arguments.connect.port = stoi(m_debugpy_port).value)

=============================================================================
